---- MODULE Spec2Model ----
(***************************************************************************)
(* Model of the gator feed aggregation engine (commands.go): the feed      *)
(* store with its staleness timestamps, the post store keyed by item URL,  *)
(* and one aggregation cycle (scrapeFeeds) driven by the poller.           *)
(*                                                                         *)
(* The sqlc-generated package internal/database and rss.go are not part of *)
(* the sources at hand; GetNextFeedToFetch, MarkFeedFetched, CreatePost,   *)
(* CreateFeed and fetchFeed are modelled from their contracts in spec.md   *)
(* (sections 3, 4.1, 4.4 and 6).                                           *)
(***************************************************************************)
EXTENDS Integers, Sequences, FiniteSets, TLC

\* ------------------------------------------------------------------ bounds
MaxFeeds == 3      \* feeds in the directory when only the schedule is followed
MaxTime  == 8      \* instant at which the followed schedule ends
MaxStep  == 2      \* longest time between two successive fetch attempts
MaxItems == 2      \* items in one fetched feed document
IngestFeeds == 2   \* feeds in the directory when documents are ingested
IngestTime  == 2   \* instant at which the ingestion of documents ends
MaxTicks == 3      \* firings of the poller's ticker that are followed
MaxCalls == 3      \* applications of parsePublishedDate that are followed

\* the clock up to which the concurrent processes mark feeds
ConcTime == 2

\* ----------------------------------------------------------- value spaces
Links == {"l1", "l2"}
Titles == {"t"}
Descriptions == {""}

RFC1123ZStr == "Mon, 02 Jan 2006 15:04:05 -0700"
BareStr     == "2006-01-02 15:04:05"
ISOStr      == "2006-01-02T15:04:05Z"
BadStr      == "not-a-date"
DateStrs    == {"", RFC1123ZStr, BadStr}

\* sql.NullTime / sql.NullString: the zero value is the SQL NULL
NullTime    == [Valid |-> FALSE, Time |-> 0]
SomeTime(t) == [Valid |-> TRUE, Time |-> t]
NullString    == [Valid |-> FALSE, String |-> ""]
SomeString(s) == [Valid |-> TRUE, String |-> s]

\* the strings parsePublishedDate is applied to
DateInputs == {"", RFC1123ZStr, ISOStr, BareStr, BadStr}

Min(a, b) == IF a <= b THEN a ELSE b

\* one <item> of a fetched document
Items == [Title : Titles, Link : Links, Description : Descriptions, PubDate : DateStrs]

RECURSIVE SeqsUpTo(_, _)
SeqsUpTo(S, n) ==
    IF n = 0 THEN {<< >>}
    ELSE LET shorter == SeqsUpTo(S, n - 1)
         IN  shorter \cup {Append(s, x) : s \in {q \in shorter : Len(q) = n - 1}, x \in S}

\* the documents a feed URL can answer with
Docs == SeqsUpTo(Items, MaxItems)

\* two versions of the item of each link, which differ in every field a post
\* keeps: a bare one and one with a description and a date
RichItems ==
    {it \in [Title : {"t", "u"}, Link : Links, Description : {"", "d"},
             PubDate : {"", RFC1123ZStr}] :
        /\ (it.Title = "t") = (it.Description = "")
        /\ (it.Title = "t") = (it.PubDate = "")}

RichDocs == SeqsUpTo(RichItems, MaxItems)

\* a document without items, all the schedule needs
EmptyDocs == {<< >>}

\* --------------------------------------------------------------- variables
VARIABLES
    nFeeds,       \* rows of the feeds table; a feed's id is its insertion rank
    lastFetched,  \* feeds.last_fetched_at, a NullTime per feed id
    posts,        \* rows of the posts table, in insertion order
    now,          \* the store's clock (NOW())
    last,         \* what the most recent scrapeFeeds call saw and returned
    picks,        \* feeds selected by the latest cycles since the feed set changed
    poller,       \* the goroutine of handlerAgg and its ticker
    procs,        \* aggregator processes followed call by call through a cycle
    users,        \* names in the users table
    cfg,          \* current_user_name of the config file, "" when unset
    parsed,       \* the published dates normalized so far, call by call
    ran           \* the last register, login or reset command and its error

store == <<nFeeds, lastFetched, posts, now>>
cli == <<users, cfg, parsed, ran>>
vars == <<nFeeds, lastFetched, posts, now, last, picks, poller, procs, users, cfg, parsed,
          ran>>

NoCommand == [cmd |-> "none", arg |-> "none", err |-> "none"]

NoCycle == [feed |-> 0, was |-> NullTime, at |-> 0, fetchErr |-> FALSE, err |-> "none",
            items |-> << >>, faults |-> {}, errs |-> << >>]

\* ------------------------------------------------------------ date parsing
\* the layouts parsePublishedDate tries, in its order
formats == <<"RFC1123Z", "RFC1123", "RFC822Z", "RFC822", "2006-01-02T15:04:05Z07:00",
             "2006-01-02 15:04:05">>

\* time.Parse on the date strings of the model: the layout that accepts the
\* string and the instant (Unix seconds) it denotes
time_Parse(format, dateStr) ==
    IF format = "RFC1123Z" /\ dateStr = RFC1123ZStr
    THEN [err |-> FALSE, t |-> 1136239445]
    ELSE IF format = "2006-01-02T15:04:05Z07:00" /\ dateStr = ISOStr
    THEN [err |-> FALSE, t |-> 1136214245]
    ELSE IF format = "2006-01-02 15:04:05" /\ dateStr = BareStr
    THEN [err |-> FALSE, t |-> 1136214245]
    ELSE [err |-> TRUE, t |-> 0]

\* a loop that gives up after the first layout
tryFormats_FirstOnly(i, dateStr) ==
    IF i > 1 THEN [err |-> TRUE, t |-> 0]
    ELSE time_Parse(formats[i], dateStr)

RECURSIVE tryFormats(_, _)
tryFormats(i, dateStr) ==
    IF i > Len(formats) THEN [err |-> TRUE, t |-> 0]
    ELSE LET r == time_Parse(formats[i], dateStr)
         IN  IF ~r.err THEN r ELSE tryFormats(i + 1, dateStr)

parsePublishedDate(dateStr) == tryFormats(1, dateStr)

\* ------------------------------------------------------------------- store
\* ORDER BY last_fetched_at ASC NULLS FIRST: a is strictly staler than b
StalerThan(a, b) ==
    \/ ~a.Valid /\ b.Valid
    \/ a.Valid /\ b.Valid /\ a.Time < b.Time

\* a selector that orders the never fetched feeds last
GetNextFeedToFetch_NullsLast(n, lf) ==
    IF n = 0 THEN [err |-> TRUE, feed |-> 0]
    ELSE [err |-> FALSE,
          feed |-> CHOOSE f \in 1..n :
                      /\ \A g \in 1..n : ~(lf[g].Valid /\ (~lf[f].Valid \/ lf[g].Time < lf[f].Time))
                      /\ \A g \in 1..(f - 1) : lf[f].Valid /\ (~lf[g].Valid \/ lf[f].Time < lf[g].Time)]

\* the first row in staleness order, insertion order breaking ties;
\* sql.ErrNoRows on an empty table
GetNextFeedToFetch(n, lf) ==
    IF n = 0 THEN [err |-> TRUE, feed |-> 0]
    ELSE [err |-> FALSE,
          feed |-> CHOOSE f \in 1..n :
                      /\ \A g \in 1..n : ~StalerThan(lf[g], lf[f])
                      /\ \A g \in 1..(f - 1) : StalerThan(lf[f], lf[g])]

\* UPDATE feeds SET last_fetched_at = NOW() WHERE id = feedID
MarkFeedFetched(lf, feedID, t) == [lf EXCEPT ![feedID] = SomeTime(t)]

\* a posts table without the unique key on url
CreatePost_NoUniqueKey(rows, params, fault) ==
    IF fault THEN [rows |-> rows, err |-> "store"]
    ELSE [rows |-> Append(rows, params), err |-> "nil"]

\* an INSERT ... ON CONFLICT (url) DO UPDATE: the known row takes the new
\* values
CreatePost_Upsert(rows, params, fault) ==
    IF fault THEN [rows |-> rows, err |-> "store"]
    ELSE IF \E i \in 1..Len(rows) : rows[i].Url = params.Url
    THEN [rows |-> [i \in 1..Len(rows) |->
                       IF rows[i].Url = params.Url THEN params ELSE rows[i]],
          err |-> "nil"]
    ELSE [rows |-> Append(rows, params), err |-> "nil"]

\* INSERT INTO posts: the unique key on url rejects a second row with the
\* same url (23505); any other failure of the store leaves the table alone
CreatePost(rows, params, fault) ==
    IF fault THEN [rows |-> rows, err |-> "store"]
    ELSE IF \E i \in 1..Len(rows) : rows[i].Url = params.Url
    THEN [rows |-> rows, err |-> "23505"]
    ELSE [rows |-> Append(rows, params), err |-> "nil"]

\* ------------------------------------------------------------- scrapeFeeds
\* the published date of an item: parsed, or NULL when empty or unparseable
PublishedAt(item) ==
    IF item.PubDate # ""
    THEN LET r == parsePublishedDate(item.PubDate)
         IN  IF r.err THEN NullTime ELSE SomeTime(r.t)
    ELSE NullTime

\* one application of parsePublishedDate to a string, and beside it what
\* scrapeFeeds does with an item of that PubDate: whether it calls the
\* function, whether it logs the warning, and the publishedAt it stores
parseDate(dateStr) ==
    /\ Len(parsed) < MaxCalls
    /\ parsed' = Append(parsed,
                    [dateStr |-> dateStr,
                     res |-> parsePublishedDate(dateStr),
                     called |-> dateStr # "",
                     warned |-> dateStr # "" /\ parsePublishedDate(dateStr).err,
                     publishedAt |-> PublishedAt([PubDate |-> dateStr])])
    /\ UNCHANGED <<nFeeds, lastFetched, posts, now, last, picks, poller, procs, users, cfg,
                   ran>>

\* the nullable description of an item
DescriptionOf(item) ==
    IF item.Description # "" THEN SomeString(item.Description) ELSE NullString

CreatePostParams(feedID, item) ==
    [Title |-> item.Title, Url |-> item.Link, Description |-> DescriptionOf(item),
     PublishedAt |-> PublishedAt(item), FeedID |-> feedID]

\* a loop that gives up at the first error that is not a 23505
RECURSIVE SaveItems_StopAtError(_, _, _, _, _)
SaveItems_StopAtError(rows, feedID, items, faults, i) ==
    IF i > Len(items) THEN [rows |-> rows, errs |-> << >>]
    ELSE LET r == CreatePost(rows, CreatePostParams(feedID, items[i]), i \in faults)
         IN  IF r.err = "store" THEN [rows |-> r.rows, errs |-> <<r.err>>]
             ELSE LET rest == SaveItems_StopAtError(r.rows, feedID, items, faults, i + 1)
                  IN  [rows |-> rest.rows, errs |-> <<r.err>> \o rest.errs]

\* a loop that leaves the item with an unparseable date aside
RECURSIVE SaveItems_SkipBadDate(_, _, _, _, _)
SaveItems_SkipBadDate(rows, feedID, items, faults, i) ==
    IF i > Len(items) THEN [rows |-> rows, errs |-> << >>]
    ELSE LET bad == items[i].PubDate # "" /\ parsePublishedDate(items[i].PubDate).err
             r == IF bad THEN [rows |-> rows, err |-> "date"]
                  ELSE CreatePost(rows, CreatePostParams(feedID, items[i]), i \in faults)
             rest == SaveItems_SkipBadDate(r.rows, feedID, items, faults, i + 1)
         IN  [rows |-> rest.rows, errs |-> <<r.err>> \o rest.errs]

\* the loop over rssFeed.Channel.Item from item i on: every item is handed
\* to CreatePost and the loop goes on whatever CreatePost returned (a 23505
\* is ignored, any other error is logged); errs are the errors in item order
RECURSIVE SaveItems(_, _, _, _, _)
SaveItems(rows, feedID, items, faults, i) ==
    IF i > Len(items) THEN [rows |-> rows, errs |-> << >>]
    ELSE LET r    == CreatePost(rows, CreatePostParams(feedID, items[i]), i \in faults)
             rest == SaveItems(r.rows, feedID, items, faults, i + 1)
         IN  [rows |-> rest.rows, errs |-> <<r.err>> \o rest.errs]

\* what fetchFeed can return: an error, or one of the documents docs
FetchResults(docs) ==
    {[err |-> TRUE, items |-> << >>]} \cup {[err |-> FALSE, items |-> d] : d \in docs}

\* a cycle that returns the 23505 of an already known item
AfterMark_DuplicateIsError(rows, feedID, fetch, faults) ==
    IF fetch.err
    THEN [rows |-> rows, errs |-> << >>, err |-> "fetch"]
    ELSE LET saved == SaveItems(rows, feedID, fetch.items, faults, 1)
         IN  [rows |-> saved.rows, errs |-> saved.errs,
              err |-> IF \E i \in 1..Len(saved.errs) : saved.errs[i] = "23505"
                      THEN "23505" ELSE "nil"]

\* the part of the cycle that follows the mark: a failed fetch returns its
\* error at once, a fetched document is saved item by item and nil returned
AfterMark(rows, feedID, fetch, faults) ==
    IF fetch.err
    THEN [rows |-> rows, errs |-> << >>, err |-> "fetch"]
    ELSE LET saved == SaveItems(rows, feedID, fetch.items, faults, 1)
         IN  [rows |-> saved.rows, errs |-> saved.errs, err |-> "nil"]

\* a cycle that marks the feed only once its document is fetched
FeedsAfterCycle_MarkOnSuccess(lf, feedID, t, fetch) ==
    IF fetch.err THEN lf ELSE MarkFeedFetched(lf, feedID, t)

\* a mark without its WHERE clause: every feed is marked
FeedsAfterCycle_MarkAll(lf, feedID, t, fetch) ==
    [f \in DOMAIN lf |-> SomeTime(t)]

\* feeds.last_fetched_at once the cycle is over: the mark comes before the
\* fetch and nothing undoes it
FeedsAfterCycle(lf, feedID, t, fetch) == MarkFeedFetched(lf, feedID, t)

\* the latest selections since the feed set changed, one per feed at most
Remember(ps, p) ==
    LET all == Append(ps, p)
    IN  IF Len(all) > nFeeds THEN Tail(all) ELSE all

\* one aggregation cycle, over the documents docs, while the clock is before
\* the instant until
scrapeFeeds(docs, until) ==
    LET sel == GetNextFeedToFetch(nFeeds, lastFetched) IN
    IF sel.err
    THEN /\ last' = [NoCycle EXCEPT !.err = "select", !.at = now]
         /\ UNCHANGED <<nFeeds, lastFetched, posts, now, picks>>
    ELSE /\ now < until
         /\ \E t \in (now + 1)..Min(now + MaxStep, until), fetch \in FetchResults(docs) :
              \E faults \in SUBSET (1..Len(fetch.items)) :
                LET done == AfterMark(posts, sel.feed, fetch, faults) IN
                /\ now' = t
                /\ lastFetched' = FeedsAfterCycle(lastFetched, sel.feed, t, fetch)
                /\ posts' = done.rows
                /\ last' = [feed |-> sel.feed, was |-> lastFetched[sel.feed], at |-> t,
                            fetchErr |-> fetch.err, err |-> done.err,
                            items |-> fetch.items, faults |-> faults, errs |-> done.errs]
                /\ picks' = Remember(picks, [feed |-> sel.feed, was |-> lastFetched[sel.feed],
                                             fetchErr |-> fetch.err])
         /\ UNCHANGED nFeeds

\* ---------------------------------------------------------- handlerAddFeed
\* a new row in the feeds table, never fetched
handlerAddFeed(cap) ==
    /\ nFeeds < cap
    /\ nFeeds' = nFeeds + 1
    /\ lastFetched' = [f \in 1..(nFeeds + 1) |->
                          IF f <= nFeeds THEN lastFetched[f] ELSE NullTime]
    /\ picks' = << >>
    /\ UNCHANGED <<posts, now, last>>

\* -------------------------------------------------------------- handlerAgg
\* the time_between_reqs argument of agg: missing, not a duration, a negative,
\* a zero or a positive duration
Args == {"none", "bad", "neg", "zero", "pos"}

\* handlerAgg not called yet
PollerOff == [pc |-> "off", arg |-> "none", chan |-> 0, ticks |-> 0, dropped |-> 0,
              cycles |-> 0, inflight |-> 0, logged |-> 0]

\* a loop that waits for the first tick before its first cycle
handlerAgg_WaitFirst(arg) ==
    /\ poller.pc = "off"
    /\ poller' = IF arg \in {"none", "bad"}
                 THEN [poller EXCEPT !.pc = "returned", !.arg = arg]
                 ELSE IF arg \in {"neg", "zero"}
                 THEN [poller EXCEPT !.pc = "panicked", !.arg = arg]
                 ELSE [poller EXCEPT !.pc = "wait", !.arg = arg]
    /\ UNCHANGED <<nFeeds, lastFetched, posts, now, last, picks, procs, cli>>

\* the call of handlerAgg up to its first cycle: no argument and an argument
\* time.ParseDuration rejects return an error; time.NewTicker panics on a
\* duration that is not positive; otherwise the loop starts with a cycle
handlerAgg(arg) ==
    /\ poller.pc = "off"
    /\ poller' = IF arg \in {"none", "bad"}
                 THEN [poller EXCEPT !.pc = "returned", !.arg = arg]
                 ELSE IF arg \in {"neg", "zero"}
                 THEN [poller EXCEPT !.pc = "panicked", !.arg = arg]
                 ELSE [poller EXCEPT !.pc = "scrape", !.arg = arg,
                                     !.cycles = 1, !.inflight = 1]
    /\ UNCHANGED <<nFeeds, lastFetched, posts, now, last, picks, procs, cli>>

\* a loop that returns the error of a cycle
aggScrape_ReturnOnError ==
    /\ poller.pc = "scrape"
    /\ scrapeFeeds(EmptyDocs, MaxTime)
    /\ poller' = [poller EXCEPT !.pc = IF last'.err # "nil" THEN "returned" ELSE "wait",
                                !.inflight = @ - 1]
    /\ UNCHANGED <<procs, cli>>

\* the loop body: the call of scrapeFeeds ends, its error is written to
\* stderr, and the loop goes to wait on ticker.C
aggScrape ==
    /\ poller.pc = "scrape"
    /\ scrapeFeeds(EmptyDocs, MaxTime)
    /\ poller' = [poller EXCEPT !.pc = "wait", !.inflight = @ - 1,
                                !.logged = IF last'.err # "nil" THEN @ + 1 ELSE @]
    /\ UNCHANGED <<procs, cli>>

\* the loop's post statement <-ticker.C: a pending tick starts the next cycle
aggReceive ==
    /\ poller.pc = "wait"
    /\ poller.chan = 1
    /\ poller' = [poller EXCEPT !.pc = "scrape", !.chan = 0,
                                !.cycles = @ + 1, !.inflight = @ + 1]
    /\ UNCHANGED <<nFeeds, lastFetched, posts, now, last, picks, procs, cli>>

\* a ticker that runs the cycle of each tick in a goroutine of its own
tick_StartsCycle ==
    /\ poller.pc \in {"scrape", "wait"}
    /\ poller.ticks < MaxTicks
    /\ poller' = IF poller.pc = "scrape"
                 THEN [poller EXCEPT !.ticks = @ + 1, !.cycles = @ + 1, !.inflight = @ + 1]
                 ELSE IF poller.chan = 0
                 THEN [poller EXCEPT !.ticks = @ + 1, !.chan = 1]
                 ELSE [poller EXCEPT !.ticks = @ + 1, !.dropped = @ + 1]
    /\ UNCHANGED <<nFeeds, lastFetched, posts, now, last, picks, procs, cli>>

\* a ticker whose channel has no buffer: a tick during a cycle is lost
tick_Unbuffered ==
    /\ poller.pc \in {"scrape", "wait"}
    /\ poller.ticks < MaxTicks
    /\ poller' = IF poller.chan = 0 /\ poller.pc = "wait"
                 THEN [poller EXCEPT !.ticks = @ + 1, !.chan = 1]
                 ELSE [poller EXCEPT !.ticks = @ + 1, !.dropped = @ + 1]
    /\ UNCHANGED <<nFeeds, lastFetched, posts, now, last, picks, procs, cli>>

\* the ticker fires: ticker.C holds one tick, a tick that finds it full is
\* dropped
tick ==
    /\ poller.pc \in {"scrape", "wait"}
    /\ poller.ticks < MaxTicks
    /\ poller' = IF poller.chan = 0
                 THEN [poller EXCEPT !.ticks = @ + 1, !.chan = 1]
                 ELSE [poller EXCEPT !.ticks = @ + 1, !.dropped = @ + 1]
    /\ UNCHANGED <<nFeeds, lastFetched, posts, now, last, picks, procs, cli>>

\* ------------------------------------------------ register, login, reset
\* user names given on the command line
Names == {"alice", "bob"}

\* the argument of register and login: none, or a name
UserArgs == Names \cup {"none"}

\* what fails in a command: nothing, the database, or the write of the
\* config file
Faults == {"none", "db", "write"}

\* INSERT INTO users: the unique key on name rejects a known name (23505)
CreateUser(us, name, fault) ==
    IF fault = "db" THEN [users |-> us, err |-> "store"]
    ELSE IF name \in us THEN [users |-> us, err |-> "23505"]
    ELSE [users |-> us \cup {name}, err |-> "nil"]

\* SELECT the user of the name: sql.ErrNoRows when there is none
GetUser(us, name, fault) ==
    IF fault = "db" THEN "store"
    ELSE IF name \in us THEN "nil" ELSE "ErrNoRows"

\* DELETE FROM users
DeleteAllUsers(us, fault) ==
    IF fault = "db" THEN [users |-> us, err |-> "store"]
    ELSE [users |-> {}, err |-> "nil"]

\* Config.SetUser: current_user_name is set and the file written; a write
\* that fails leaves the file of the earlier run
SetUser(c, username, fault) ==
    IF fault = "write" THEN [cfg |-> c, err |-> "write"]
    ELSE [cfg |-> username, err |-> "nil"]

handlerRegister(arg, fault) ==
    /\ IF arg = "none"
       THEN /\ ran' = [cmd |-> "register", arg |-> arg, err |-> "usage"]
            /\ UNCHANGED <<users, cfg>>
       ELSE LET created == CreateUser(users, arg, fault) IN
            IF created.err # "nil"
            THEN /\ ran' = [cmd |-> "register", arg |-> arg,
                            err |-> IF created.err = "23505" THEN "exists" ELSE "create"]
                 /\ UNCHANGED <<users, cfg>>
            ELSE LET set == SetUser(cfg, arg, fault) IN
                 /\ users' = created.users
                 /\ cfg' = set.cfg
                 /\ ran' = [cmd |-> "register", arg |-> arg,
                            err |-> IF set.err # "nil" THEN "config" ELSE "nil"]
    /\ UNCHANGED <<nFeeds, lastFetched, posts, now, last, picks, poller, procs, parsed>>

handlerLogin(arg, fault) ==
    /\ IF arg = "none"
       THEN /\ ran' = [cmd |-> "login", arg |-> arg, err |-> "usage"]
            /\ UNCHANGED cfg
       ELSE LET got == GetUser(users, arg, fault) IN
            IF got # "nil"
            THEN /\ ran' = [cmd |-> "login", arg |-> arg,
                            err |-> IF got = "ErrNoRows" THEN "nouser" ELSE "get"]
                 /\ UNCHANGED cfg
            ELSE LET set == SetUser(cfg, arg, fault) IN
                 /\ cfg' = set.cfg
                 /\ ran' = [cmd |-> "login", arg |-> arg,
                            err |-> IF set.err # "nil" THEN "config" ELSE "nil"]
    /\ UNCHANGED <<nFeeds, lastFetched, posts, now, last, picks, poller, procs, users,
                   parsed>>

\* reset deletes the users and leaves the config file alone; the feeds and
\* posts of the deleted users are left aside, their tables are empty where
\* reset is followed
handlerReset(fault) ==
    /\ LET deleted == DeleteAllUsers(users, fault) IN
       /\ users' = deleted.users
       /\ ran' = [cmd |-> "reset", arg |-> "none",
                  err |-> IF deleted.err # "nil" THEN "reset" ELSE "nil"]
    /\ UNCHANGED <<nFeeds, lastFetched, posts, now, last, picks, poller, procs, cfg,
                   parsed>>

\* ------------------------------------------- agg processes on one database
\* the gator agg processes that run against the same database
Procs == {1, 2}

\* documents of items without a date
PlainItems == {it \in Items : it.PubDate = ""}

ConcDocs == SeqsUpTo(PlainItems, MaxItems)

\* a process about to call scrapeFeeds
ProcAtSelect == [pc |-> "select", feed |-> 0, items |-> << >>, i |-> 0,
                 errs |-> << >>, err |-> "none", cut |-> "none"]

\* a loop that returns the 23505 of CreatePost
AfterCreatePost_DuplicateIsError(err) ==
    IF err = "23505" THEN "return" ELSE "continue"

\* what the item loop does with the result of CreatePost: a 23505 is skipped
\* in silence, any other error is logged, and the loop goes on in each case
AfterCreatePost(err) == "continue"

\* scrapeFeeds up to the selection: GetNextFeedToFetch and its error
stepSelect(p) ==
    /\ procs[p].pc = "select"
    /\ LET sel == GetNextFeedToFetch(nFeeds, lastFetched) IN
       procs' = [procs EXCEPT ![p] =
                    IF sel.err THEN [@ EXCEPT !.pc = "done", !.err = "select"]
                    ELSE [@ EXCEPT !.pc = "mark", !.feed = sel.feed]]
    /\ UNCHANGED <<nFeeds, lastFetched, posts, now, last, picks, poller, cli>>

\* MarkFeedFetched of the feed selected before
stepMark(p) ==
    /\ procs[p].pc = "mark"
    /\ now < ConcTime
    /\ \E t \in (now + 1)..Min(now + MaxStep, ConcTime) :
          /\ now' = t
          /\ lastFetched' = MarkFeedFetched(lastFetched, procs[p].feed, t)
    /\ procs' = [procs EXCEPT ![p].pc = "fetch"]
    /\ UNCHANGED <<nFeeds, posts, last, picks, poller, cli>>

\* fetchFeed and its error
stepFetch(p) ==
    /\ procs[p].pc = "fetch"
    /\ \E fetch \in FetchResults(ConcDocs) :
          procs' = [procs EXCEPT ![p] =
                       IF fetch.err THEN [@ EXCEPT !.pc = "done", !.err = "fetch"]
                       ELSE [@ EXCEPT !.pc = "save", !.items = fetch.items, !.i = 1]]
    /\ UNCHANGED <<nFeeds, lastFetched, posts, now, last, picks, poller, cli>>

\* one turn of the item loop: CreatePost of the next item
stepCreate(p) ==
    /\ procs[p].pc = "save"
    /\ procs[p].i <= Len(procs[p].items)
    /\ \E fault \in BOOLEAN :
          LET res == CreatePost(posts, CreatePostParams(procs[p].feed,
                                                        procs[p].items[procs[p].i]), fault)
          IN  /\ posts' = res.rows
              /\ procs' = [procs EXCEPT ![p] =
                     IF AfterCreatePost(res.err) = "return"
                     THEN [@ EXCEPT !.pc = "done", !.err = res.err,
                                    !.errs = Append(@, res.err)]
                     ELSE [@ EXCEPT !.i = @ + 1, !.errs = Append(@, res.err)]]
    /\ UNCHANGED <<nFeeds, lastFetched, now, last, picks, poller, cli>>

\* the item loop is over: scrapeFeeds returns nil
stepReturn(p) ==
    /\ procs[p].pc = "save"
    /\ procs[p].i > Len(procs[p].items)
    /\ procs' = [procs EXCEPT ![p] = [@ EXCEPT !.pc = "done", !.err = "nil"]]
    /\ UNCHANGED <<nFeeds, lastFetched, posts, now, last, picks, poller, cli>>

\* the next tick of the process: its next call of scrapeFeeds
stepTick(p) ==
    /\ procs[p].pc = "done"
    /\ now < ConcTime
    /\ procs' = [procs EXCEPT ![p] = ProcAtSelect]
    /\ UNCHANGED <<nFeeds, lastFetched, posts, now, last, picks, poller, cli>>

\* the process is interrupted (Ctrl+C): no signal is handled, it ends where
\* it is
interrupt(p) ==
    /\ procs[p].pc # "killed"
    /\ procs' = [procs EXCEPT ![p] = [@ EXCEPT !.pc = "killed", !.cut = procs[p].pc]]
    /\ UNCHANGED <<nFeeds, lastFetched, posts, now, last, picks, poller, cli>>

\* ----------------------------------------------------------- specification
Init ==
    /\ nFeeds = 0
    /\ lastFetched = [f \in {} |-> NullTime]
    /\ posts = << >>
    /\ now = 0
    /\ last = NoCycle
    /\ picks = << >>
    /\ poller = PollerOff
    /\ procs = << >>
    /\ users = {}
    /\ cfg = ""
    /\ parsed = << >>
    /\ ran = NoCommand

\* the poller over a feed directory that grows, documents left aside
Next ==
    \/ scrapeFeeds(EmptyDocs, MaxTime) /\ UNCHANGED <<poller, procs, cli>>
    \/ handlerAddFeed(MaxFeeds) /\ UNCHANGED <<poller, procs, cli>>

Spec == Init /\ [][Next]_vars

\* the poller ingesting documents
IngestNext ==
    \/ scrapeFeeds(Docs, IngestTime) /\ UNCHANGED <<poller, procs, cli>>
    \/ handlerAddFeed(IngestFeeds) /\ UNCHANGED <<poller, procs, cli>>

IngestSpec == Init /\ [][IngestNext]_vars

\* the poller that keeps ticking over a fixed, non-empty feed directory
LiveInit ==
    /\ nFeeds \in 1..MaxFeeds
    /\ lastFetched = [f \in 1..nFeeds |-> NullTime]
    /\ posts = << >>
    /\ now = 0
    /\ last = NoCycle
    /\ picks = << >>
    /\ poller = PollerOff
    /\ procs = << >>
    /\ users = {}
    /\ cfg = ""
    /\ parsed = << >>
    /\ ran = NoCommand

LiveNext == scrapeFeeds(EmptyDocs, MaxTime) /\ UNCHANGED <<poller, procs, cli>>

LiveSpec == LiveInit /\ [][LiveNext]_vars /\ WF_vars(LiveNext)

\* the poller ingesting documents whose items differ in title, description
\* and date
KeepNext ==
    \/ scrapeFeeds(RichDocs, IngestTime) /\ UNCHANGED <<poller, procs, cli>>
    \/ handlerAddFeed(IngestFeeds) /\ UNCHANGED <<poller, procs, cli>>

KeepSpec == Init /\ [][KeepNext]_vars

\* the commands register, login and reset, run one after the other
UserNext ==
    \/ \E arg \in UserArgs, fault \in Faults : handlerRegister(arg, fault)
    \/ \E arg \in UserArgs, fault \in Faults : handlerLogin(arg, fault)
    \/ \E fault \in Faults : handlerReset(fault)

UserSpec == Init /\ [][UserNext]_vars

\* parsePublishedDate applied to date strings, one after the other
DateNext == \E dateStr \in DateInputs : parseDate(dateStr)

DateSpec == Init /\ [][DateNext]_vars

\* two agg processes, each at the start of a cycle, on a feeds table of
\* feeds never fetched
ConcInit ==
    /\ nFeeds \in 0..IngestFeeds
    /\ lastFetched = [f \in 1..nFeeds |-> NullTime]
    /\ posts = << >>
    /\ now = 0
    /\ last = NoCycle
    /\ picks = << >>
    /\ poller = PollerOff
    /\ procs = [p \in Procs |-> ProcAtSelect]
    /\ users = {}
    /\ cfg = ""
    /\ parsed = << >>
    /\ ran = NoCommand

ConcNext ==
    \E p \in Procs :
        \/ stepSelect(p)
        \/ stepMark(p)
        \/ stepFetch(p)
        \/ stepCreate(p)
        \/ stepReturn(p)
        \/ stepTick(p)
        \/ interrupt(p)

ConcSpec == ConcInit /\ [][ConcNext]_vars

\* the agg command: handlerAgg, its ticker, and feeds added meanwhile
PollerNext ==
    \/ \E arg \in Args : handlerAgg(arg)
    \/ aggScrape
    \/ aggReceive
    \/ tick
    \/ handlerAddFeed(IngestFeeds) /\ UNCHANGED <<poller, procs, cli>>

PollerSpec == Init /\ [][PollerNext]_vars

\* the same with a ticker that keeps firing and a loop that keeps running
PollerLiveSpec == PollerSpec /\ WF_vars(tick) /\ WF_vars(aggReceive) /\ WF_vars(aggScrape)

\* ------------------------------------------------------------------ claims
\* this step is a cycle that selected a feed and recorded the attempt
Attempted == now' > now

\* C1: no two stored posts have the same URL, whatever the cycles fetched.
C1_UniqueUrls ==
    \A i, j \in 1..Len(posts) : i # j => posts[i].Url # posts[j].Url

\* a document that repeats a link and resends an item another feed's cycle
\* had stored, next to a second stored post
C1_Witness ==
    /\ last.err = "nil" /\ Len(last.items) = 2 /\ last.faults = {}
    /\ last.items[1].Link = last.items[2].Link
    /\ Len(posts) = 2
    /\ \E i \in 1..Len(posts) : posts[i].Url = last.items[1].Link /\ posts[i].FeedID # last.feed

\* C2: a cycle that fetches the document the previous cycle ingested (no
\* create-post of that run having failed in the store) leaves the posts as
\* they were and returns no error.
C2_Idempotent ==
    [][(/\ Attempted
        /\ last.err = "nil" /\ last.faults = {}
        /\ ~last'.fetchErr /\ last'.items = last.items)
       => posts' = posts /\ last'.err = "nil"]_vars

\* the same feed has run twice on the same two-item document
C2_Witness ==
    /\ last.err = "nil" /\ last.was = SomeTime(last.at - 1) /\ nFeeds = 1
    /\ Len(last.items) = 2 /\ last.items[1].Link # last.items[2].Link
    /\ Len(posts) = 2 /\ \A i \in 1..2 : posts[i].Url = last.items[i].Link

\* C3: when the fetch fails the cycle returns an error, the attempt time
\* stays recorded on the feed and the posts are those from before the cycle.
C3_FetchFailure ==
    [][(Attempted /\ last'.fetchErr)
       => /\ last'.err # "nil"
          /\ lastFetched'[last'.feed] = SomeTime(now')
          /\ posts' = posts]_vars

C3_Witness ==
    /\ last.fetchErr /\ last.err = "fetch"
    /\ Len(posts) > 0
    /\ lastFetched[last.feed] = SomeTime(last.at)

\* C4: a feed's last_fetched_at never decreases, and from the feed's first
\* attempt on, failed or not, it is never NULL.
C4_Monotonic ==
    [][\A f \in 1..nFeeds :
          /\ lastFetched[f].Valid
                => lastFetched'[f].Valid /\ lastFetched'[f].Time >= lastFetched[f].Time
          /\ (Attempted /\ last'.feed = f) => lastFetched'[f].Valid]_vars

\* a feed whose second attempt failed carries the later instant
C4_Witness ==
    /\ last.fetchErr /\ last.was.Valid
    /\ lastFetched[last.feed].Valid /\ lastFetched[last.feed].Time > last.was.Time

\* C5: the cycle's feed is a never fetched one if there is any, else one with
\* the oldest last_fetched_at, and in both cases the first inserted of those;
\* it is the feed the cycle marks.
NeverFetched == {f \in 1..nFeeds : ~lastFetched[f].Valid}
Oldest == {f \in 1..nFeeds : \A g \in 1..nFeeds : lastFetched[f].Time <= lastFetched[g].Time}
Stalest == IF NeverFetched # {} THEN NeverFetched ELSE Oldest

C5_Selection ==
    [][Attempted
       => /\ last'.feed \in Stalest
          /\ \A g \in Stalest : last'.feed <= g
          /\ lastFetched'[last'.feed] # lastFetched[last'.feed]
          /\ \A g \in 1..nFeeds : g # last'.feed => lastFetched'[g] = lastFetched[g]]_vars

\* of two never fetched feeds the first inserted is selected, ahead of a
\* feed fetched before
C5_Witness ==
    /\ nFeeds = 3 /\ last.feed = 2 /\ ~last.was.Valid
    /\ lastFetched[1].Valid /\ ~lastFetched[3].Valid

\* last_fetched_at of feed g as it was before the cycles of picks
Before(g) ==
    IF \E i \in 1..Len(picks) : picks[i].feed = g
    THEN picks[CHOOSE i \in 1..Len(picks) :
                  picks[i].feed = g /\ \A j \in 1..(i - 1) : picks[j].feed # g].was
    ELSE lastFetched[g]

\* C6: with A never fetched, B fetched before C, three successive cycles
\* select A, then B, then C.
C6_StalenessOrder ==
    (nFeeds = 3 /\ Len(picks) = 3)
    => \A A, B, C \in 1..3 :
          (/\ ~Before(A).Valid /\ Before(B).Valid /\ Before(C).Valid
           /\ Before(B).Time < Before(C).Time)
          => /\ picks[1].feed = A
             /\ picks[2].feed = B
             /\ picks[3].feed = C

\* the feed added last is selected first, then the two others, oldest first
C6_Witness ==
    /\ nFeeds = 3 /\ Len(picks) = 3
    /\ ~picks[1].was.Valid /\ picks[2].was.Valid /\ picks[3].was.Valid
    /\ picks[2].was.Time < picks[3].was.Time
    /\ <<picks[1].feed, picks[2].feed, picks[3].feed>> = <<3, 2, 1>>

\* C7: the cycle after a failed fetch of F selects another feed than F when
\* there is one.
C7_FailedFeedNotRepicked ==
    [][(Attempted /\ last.feed # 0 /\ last.fetchErr /\ nFeeds > 1)
       => last'.feed # last.feed]_vars

C7_Witness ==
    /\ Len(picks) >= 2
    /\ picks[Len(picks) - 1].fetchErr
    /\ picks[Len(picks) - 1].was.Valid
    /\ picks[Len(picks)].feed # picks[Len(picks) - 1].feed

\* C8: over a fixed feed directory every run of as many cycles as there are
\* feeds selects each feed once, whichever fetches fail, and every feed is
\* selected again as long as the clock leaves room for that many attempts.
EachFeedOnce == Len(picks) = nFeeds => {picks[i].feed : i \in 1..Len(picks)} = 1..nFeeds
RoomAt(f, t) == f <= nFeeds /\ now = t /\ t + nFeeds * MaxStep <= MaxTime
SelectedAfter(f, t) == last.feed = f /\ last.at > t

C8_NoStarvation ==
    /\ []EachFeedOnce
    /\ \A f \in 1..MaxFeeds : \A t \in 0..MaxTime :
          [](RoomAt(f, t) => <>SelectedAfter(f, t))

\* a second round over three feeds, one of whose fetches failed
C8_Witness ==
    /\ nFeeds = 3 /\ Len(picks) = 3
    /\ last.was.Valid
    /\ \E i \in 1..3 : picks[i].fetchErr
    /\ \E i \in 1..3 : ~picks[i].fetchErr

\* the stored post with the given url, if any
PostsWithUrl(rows, url) == {i \in 1..Len(rows) : rows[i].Url = url}

\* the published timestamp a date string stands for
Normalized(dateStr) ==
    IF dateStr = RFC1123ZStr THEN SomeTime(1136239445) ELSE NullTime

\* C9: of a document whose items have distinct new links, every item the
\* store accepts is persisted under the cycle's feed, with the normalized
\* timestamp when its date is well formed and without timestamp otherwise.
C9_DateIsolation ==
    [][(/\ Attempted /\ ~last'.fetchErr
        /\ \A i, j \in 1..Len(last'.items) :
              i # j => last'.items[i].Link # last'.items[j].Link
        /\ \A i \in 1..Len(last'.items) : PostsWithUrl(posts, last'.items[i].Link) = {})
       => /\ Len(posts') = Len(posts) + Len(last'.items) - Cardinality(last'.faults)
          /\ \A i \in 1..Len(last'.items) :
                i \notin last'.faults
                => \E k \in PostsWithUrl(posts', last'.items[i].Link) :
                      /\ posts'[k].FeedID = last'.feed
                      /\ posts'[k].PublishedAt = Normalized(last'.items[i].PubDate)]_vars

\* a malformed and a well-formed date in one document, both items stored
C9_Witness ==
    /\ last.err = "nil" /\ Len(last.items) = 2 /\ last.faults = {}
    /\ last.items[1].PubDate = BadStr /\ last.items[2].PubDate = RFC1123ZStr
    /\ Len(posts) = 2
    /\ posts[1].Url = last.items[1].Link /\ posts[1].PublishedAt = NullTime
    /\ posts[2].Url = last.items[2].Link /\ posts[2].PublishedAt = SomeTime(1136239445)

\* C10: every item of a fetched document is handed to create-post, whatever
\* the earlier items returned, and every item whose create succeeds is in
\* the store afterwards under the cycle's feed.
C10_ItemIsolation ==
    [][(Attempted /\ ~last'.fetchErr)
       => /\ Len(last'.errs) = Len(last'.items)
          /\ \A j \in 1..Len(last'.items) :
                /\ last'.errs[j] = "store" <=> j \in last'.faults
                /\ (j \notin last'.faults
                      /\ PostsWithUrl(posts, last'.items[j].Link) = {}
                      /\ \A i \in 1..(j - 1) :
                            i \in last'.faults \/ last'.items[i].Link # last'.items[j].Link)
                   => /\ last'.errs[j] = "nil"
                      /\ \E k \in PostsWithUrl(posts', last'.items[j].Link) :
                            posts'[k].FeedID = last'.feed /\ k > Len(posts)
                /\ last'.errs[j] = "nil"
                   => PostsWithUrl(posts', last'.items[j].Link) # {}]_vars

\* the first item fails in the store, or is already known, and the second
\* item is stored
C10_Witness ==
    /\ last.err = "nil" /\ Len(last.items) = 2
    /\ last.errs[1] \in {"store", "23505"} /\ last.errs[2] = "nil"
    /\ posts[Len(posts)].Url = last.items[2].Link
    /\ posts[Len(posts)].FeedID = last.feed

Idle == poller.pc = "wait"

\* the poller runs a cycle
Running == poller.pc = "scrape"

\* a tick is pending or the ticker is still to fire
TickToCome == poller.chan = 1 \/ poller.ticks < MaxTicks

\* the step of the loop in which a cycle ends
CycleEnds == Running /\ poller'.pc # "scrape"

\* C12: a cycle that ends with an error is logged and leaves the poller
\* waiting on the ticker, never returned; on an empty feed collection every
\* cycle ends with the selector's error and writes nothing; and a waiting
\* poller with a tick to come starts a further cycle.
C12_NoTerminalState ==
    /\ [][CycleEnds
           => /\ poller'.pc = "wait"
              /\ last'.err # "nil" => poller'.logged = poller.logged + 1
              /\ nFeeds = 0 => last'.err = "select" /\ store' = store]_vars
    /\ [](poller.cycles > 0 => Idle \/ Running)
    /\ []((Idle /\ TickToCome) => <>Running)

\* on an empty feed collection two cycles ended with a logged error and the
\* third is running
C12_Witness ==
    /\ nFeeds = 0 /\ last.err = "select"
    /\ poller.logged = 2 /\ poller.cycles = 3 /\ Running

\* C13: within one run of the poller at most one cycle is in flight, and a
\* cycle starts only when none is, however many ticks fire during a cycle.
C13_Sequential ==
    [][poller'.cycles > poller.cycles
       => poller.inflight = 0 /\ poller'.inflight = 1]_vars

\* the first cycle is still running after two tick intervals
C13_Witness ==
    /\ Running /\ poller.cycles = 1 /\ poller.inflight = 1
    /\ poller.ticks >= 2

\* the loop of handlerAgg has started
Looping == Idle \/ Running

\* C14 as claimed: no tick is dropped, every tick elapsed has started a
\* cycle or is pending.
C14_NoTickDropped ==
    Looping => poller.cycles + poller.chan = 1 + poller.ticks

\* C14: the ticker keeps one pending tick. A tick that fires while none is
\* pending is kept and leads to a cycle, also during a running cycle; a tick
\* that fires while one is pending is dropped; the cycles started and the
\* pending tick are one plus the ticks elapsed less the ticks dropped.
C14_OnePendingTick ==
    /\ [](Looping => /\ poller.chan \in {0, 1}
                      /\ poller.cycles + poller.chan
                             = 1 + poller.ticks - poller.dropped)
    /\ [][poller'.ticks > poller.ticks
           => IF poller.chan = 0
              THEN poller'.chan = 1 /\ poller'.dropped = poller.dropped
              ELSE poller'.chan = 1 /\ poller'.dropped = poller.dropped + 1]_vars

\* three ticks elapsed, one of them was dropped during a slow cycle, and
\* three cycles were started
C14_Witness ==
    /\ Idle /\ poller.chan = 0
    /\ poller.ticks = 3 /\ poller.dropped = 1 /\ poller.cycles = 3

\* C15: the call of handlerAgg with a positive interval starts the first
\* cycle at once, before any tick; every other cycle starts by receiving one
\* tick, and every tick received starts one cycle.
C15_CyclePerTick ==
    [][/\ (poller.pc = "off" /\ Looping')
           => Running' /\ poller'.cycles = 1 /\ poller'.ticks = 0
       /\ (poller'.cycles # poller.cycles)
           => /\ poller'.cycles = poller.cycles + 1
              /\ \/ poller.pc = "off"
                 \/ Idle /\ poller.chan = 1 /\ poller'.chan = 0
       /\ (Looping /\ poller'.chan < poller.chan)
           => poller'.cycles = poller.cycles + 1 /\ Running']_vars

\* the second cycle runs after the one tick that was received
C15_Witness ==
    /\ Running /\ poller.cycles = 2 /\ poller.ticks = 1 /\ poller.chan = 0

\* the arguments of agg that are no positive duration
InvalidArgs == {"none", "bad", "neg", "zero"}

\* C16: a call of handlerAgg with a missing, unparseable, zero or negative
\* interval returns an error, runs no cycle and leaves the store as it was.
C16_InvalidIntervalIsError ==
    [][(poller.pc = "off" /\ poller'.pc # "off" /\ poller'.arg \in InvalidArgs)
       => /\ poller'.pc = "returned"
          /\ poller'.cycles = 0
          /\ store' = store]_vars

\* C18: a cycle for a feed, failed or not, changes the last_fetched_at of
\* that feed only, keeps every stored post as it is, and adds only posts of
\* that feed; a cycle whose fetch failed leaves all posts and every other
\* feed as they were, so a later cycle for another feed finds what it would
\* have found without it, and its own result follows from its own fetch.
C18_CrossFeedIsolation ==
    [][Attempted
       => /\ \A f \in 1..nFeeds :
                f # last'.feed => lastFetched'[f] = lastFetched[f]
          /\ Len(posts') >= Len(posts)
          /\ SubSeq(posts', 1, Len(posts)) = posts
          /\ \A i \in (Len(posts) + 1)..Len(posts') : posts'[i].FeedID = last'.feed
          /\ last'.fetchErr => posts' = posts
          /\ last'.err = IF last'.fetchErr THEN "fetch" ELSE "nil"]_vars

\* the cycle for feed 1 failed in the fetch and the next cycle, for feed 2,
\* stored a post of feed 2
C18_Witness ==
    /\ Len(picks) = 2
    /\ picks[1].feed = 1 /\ picks[1].fetchErr
    /\ picks[2].feed = 2 /\ ~picks[2].fetchErr
    /\ last.feed = 2 /\ last.err = "nil"
    /\ lastFetched[1].Valid /\ lastFetched[1].Time < lastFetched[2].Time
    /\ Len(posts) = 1 /\ posts[1].FeedID = 2

\* the cycle of process p has marked its feed and has not yet gone through
\* all items it is to store
MarkedNotSaved(pc, p) ==
    \/ pc = "fetch"
    \/ pc = "save" /\ procs[p].i <= Len(procs[p].items)

\* C17: a process that is told to shut down ends only once its cycle in
\* flight is over, never between the mark of a feed and the last of its
\* posts.
C17_GracefulShutdown ==
    \A p \in Procs :
        procs[p].pc = "killed" => ~MarkedNotSaved(procs[p].cut, p)

\* the posts table holds no two rows with the same url
UniqueUrls == \A i, j \in 1..Len(posts) : posts[i].Url = posts[j].Url => i = j

\* C19: whatever the interleaving of the CreatePost calls of two cycles,
\* the posts table holds one row per url, every item a cycle went through
\* without a store failure has its one row, whoever inserted it, the 23505
\* of the loser does not end its loop, and a cycle whose fetch succeeded
\* returns nil.
C19_CreatePostSafe ==
    /\ UniqueUrls
    /\ \A p \in Procs :
          /\ \A k \in 1..Len(procs[p].errs) :
                procs[p].errs[k] \in {"nil", "23505"}
                   => Cardinality({i \in 1..Len(posts) :
                                     posts[i].Url = procs[p].items[k].Link}) = 1
          /\ procs[p].pc = "save" => procs[p].err = "none"
          /\ (procs[p].pc = "done" /\ procs[p].err \notin {"select", "fetch"})
                => /\ procs[p].err = "nil"
                   /\ Len(procs[p].errs) = Len(procs[p].items)

\* two cycles went through the same two urls in turns: each inserted one of
\* them, got a 23505 for the other, and returned nil
C19_Witness ==
    /\ procs[1].pc = "done" /\ procs[1].err = "nil"
    /\ procs[2].pc = "done" /\ procs[2].err = "nil"
    /\ Len(procs[1].items) = 2 /\ Len(procs[2].items) = 2
    /\ procs[1].items[1].Link = procs[2].items[1].Link
    /\ procs[1].items[2].Link = procs[2].items[2].Link
    /\ procs[1].errs = <<"nil", "23505">>
    /\ procs[2].errs = <<"23505", "nil">>
    /\ Len(posts) = 2

\* C20: of two cycles running at once on a table of several feeds, no two
\* have selected the same feed with neither mark made yet.
C20_NoSharedFeed ==
    nFeeds >= 2
       => \A p, q \in Procs :
             (p # q /\ procs[p].pc = "mark" /\ procs[q].pc = "mark")
                => procs[p].feed # procs[q].feed

\* the layouts that accept a string, by their rank in formats
Matching(dateStr) == {i \in 1..Len(formats) : ~time_Parse(formats[i], dateStr).err}

\* C21 as claimed: parsePublishedDate returns without an error for the empty
\* string and for a string a layout accepts, and fails only for a non-empty
\* string that no layout accepts.
C21_EmptyIsAbsent ==
    \A k \in 1..Len(parsed) :
        /\ parsed[k].dateStr = "" => ~parsed[k].res.err
        /\ Matching(parsed[k].dateStr) # {} => ~parsed[k].res.err
        /\ parsed[k].res.err
              => parsed[k].dateStr # "" /\ Matching(parsed[k].dateStr) = {}

\* C21: parsePublishedDate fails exactly when no layout accepts the string,
\* the empty string included, and otherwise returns the instant of the first
\* layout that accepts it. The empty string is absent without an error by
\* the guard of scrapeFeeds, which does not call the function for it; a
\* warning is logged only for a non-empty string that no layout accepts,
\* and its item gets a NULL published_at.
C21_DateNormalizer ==
    \A k \in 1..Len(parsed) :
        LET c == parsed[k]
            m == Matching(c.dateStr)
        IN  /\ c.res.err <=> m = {}
            /\ m # {} => /\ \E i \in m : /\ \A j \in m : i <= j
                                         /\ c.res.t = time_Parse(formats[i], c.dateStr).t
                         /\ c.publishedAt = SomeTime(c.res.t)
            /\ c.dateStr = "" => /\ c.res.err /\ ~c.called /\ ~c.warned
                                 /\ c.publishedAt = NullTime
            /\ c.warned <=> (c.dateStr # "" /\ m = {})
            /\ c.warned => c.publishedAt = NullTime

\* the empty string, a string only the last layout accepts, and a string no
\* layout accepts
C21_Witness ==
    /\ Len(parsed) = 3
    /\ parsed[1].dateStr = "" /\ parsed[1].res.err /\ ~parsed[1].warned
    /\ parsed[2].dateStr = BareStr /\ ~parsed[2].res.err /\ parsed[2].publishedAt.Valid
    /\ parsed[3].dateStr = BadStr /\ parsed[3].warned /\ ~parsed[3].publishedAt.Valid

\* the row of the posts table with the url, if there is one
PostWithUrl(rows, url) == {rows[i] : i \in {k \in 1..Len(rows) : rows[k].Url = url}}

\* C22: no step changes or removes a row of the posts table, and an item
\* whose url is known leaves the known row with the feed, title, description
\* and published_at it was stored with, whatever the item and its feed are.
C22_PostsKept ==
    [][/\ Len(posts') >= Len(posts)
       /\ \A i \in 1..Len(posts) : posts'[i] = posts[i]
       /\ Attempted
             => \A j \in 1..Len(last'.errs) :
                   PostWithUrl(posts, last'.items[j].Link) # {}
                      => /\ last'.errs[j] \in {"23505", "store"}
                         /\ PostWithUrl(posts', last'.items[j].Link)
                               = PostWithUrl(posts, last'.items[j].Link)]_vars

\* an item of feed 2 met the url of a post of feed 1 with another title,
\* description and date, and the post is as feed 1 stored it
C22_Witness ==
    /\ last.feed = 2 /\ Len(last.items) = 1 /\ last.errs = <<"23505">>
    /\ Len(posts) = 1
    /\ posts[1].Url = last.items[1].Link
    /\ posts[1].FeedID = 1
    /\ posts[1].Title # last.items[1].Title
    /\ posts[1].Description # DescriptionOf(last.items[1])
    /\ posts[1].PublishedAt # PublishedAt(last.items[1])

\* C23: the current user of the config file is unset or is a user of the
\* users table.
C23_CurrentUserExists == cfg = "" \/ cfg \in users

====
